---------------------------- MODULE Spec2Model ----------------------------
(***************************************************************************)
(* Model of repertorium_la: the MuRET package loader, the image            *)
(* acquisition cache, the partition manager, the label Dictionary, the     *)
(* BoundingBox conversions and the MuRET -> YOLO transcoding run.          *)
(*                                                                         *)
(* Numbers.  A split fraction is held in thousandths (0.7 is 700).  A box  *)
(* coordinate is held in halves of 10^-5 (the pixel 10 is 2000000, the     *)
(* yolo value 0.8 is 160000), so that round(x, 5) and the halved widths of *)
(* to_coco and to_pascal are exact.                                        *)
(***************************************************************************)
EXTENDS Integers, Sequences, FiniteSets, TLC

VARIABLES
    \* --- PartitionManager.partition called on its own
    dataset,              \* the ordered list handed to partition
    splits,               \* [train, validation, test], thousandths
    partitions,           \* the SimpleNamespace returned, or NoValue
    ppc                   \* "ready" | "returned" | "raised"

partVars == <<dataset, splits, partitions, ppc>>

VARIABLES
    \* --- Package.__init__: the concurrent load of a package
    paths,                \* which of folder, dictionary.json and files/ exist
    dictionary_json,      \* dictionary.json: root element -> label array
    dicts,                \* the three Dictionaries: label_list and inverted
    files,                \* the .json files under files/, by file id
    jpc,                  \* per file, its _load_json task
    loaded,               \* list of DatasetFile (file ids) read so far
    collected,            \* futures whose result() the main thread has taken
    wpc,                  \* per file, its read_file task
    wrec,                 \* per file, the record read_file is at
    wres,                 \* per file, what read_file returned or raised
    training_set_images,  \* Package.training_set_images (file ids)
    pkgpc,                \* where Package.__init__ is
    pkgError              \* the exception Package.__init__ raises

loadVars == <<paths, dictionary_json, dicts, files, jpc, loaded, collected, wpc, wrec, wres,
              training_set_images, pkgpc, pkgError>>

VARIABLES
    \* --- MuRET2YOLO._load_images: the acquisition of the images
    imgUrl,               \* per image of the package, its url
    disk,                 \* per cache key, the file <cache>/images/<key>
    lock,                 \* the threading.Lock of _load_images: its holder, or 0
    apc,                  \* per image, its load_single_image task
    ares,                 \* per image, what the task returned or raised
    fetches,              \* per url, the urlopen calls made
    writes,               \* per cache key, the cache files written
    acollected,           \* futures whose result() the main thread has taken
    original_images       \* the list _load_images builds

acqVars == <<imgUrl, disk, lock, apc, ares, fetches, writes, acollected,
             original_images>>

VARIABLES
    \* --- a run of MuRET2YOLO: the constructor, then __call__
    mode,                 \* object_kind
    resize,               \* the size chosen in the UI (resize is None under 128)
    json,                 \* per image, the pages of its JSON file
    graph,                \* per image, its Pages and Regions with their boxes
    folders,              \* whether images/<split> and labels/<split> exist
    manifest,             \* the names of dataset.yaml: class index -> label
    generated,            \* results of the __generate_full_image tasks: <<>> is None
    gcollected,           \* generation futures taken by the main thread
    yolo_images,          \* the list __generate_images returns
    split_at,             \* the split _save_files is writing (1..3)
    saved,                \* positions of yolo_images whose files are written
    outputs,              \* the files written under the output folder
    runpc,                \* the stage of the run
    runError              \* the exception that ended the run

VARIABLES
    \* --- one Dictionary used by one caller
    dictionary,           \* the Dictionary
    added,                \* the labels given to add so far, constructor included
    lookup                \* what the caller's last index_of or label call did

dictVars == <<dictionary, added, lookup>>

VARIABLES
    \* --- one BoundingBox converted by one caller
    bbOrigin,             \* the box the caller built
    bbDims,               \* the img_dims the caller passes: <<>> is None
    bb,                   \* the box the last conversion returned
    bbCalls,              \* the formats asked for so far, in order
    bbRaised              \* whether the last conversion raised ValueError

boxVars == <<bbOrigin, bbDims, bb, bbCalls, bbRaised>>

runVars == <<mode, resize, json, graph, folders, manifest, generated, gcollected,
             yolo_images, split_at, saved, outputs, runpc, runError>>

vars == <<partVars, loadVars, acqVars, runVars, dictVars, boxVars>>

otherThanPart == <<loadVars, acqVars, runVars, dictVars, boxVars>>
otherThanLoad == <<partVars, acqVars, runVars, dictVars, boxVars>>
otherThanAcq  == <<partVars, loadVars, runVars, dictVars, boxVars>>
otherThanDict == <<partVars, loadVars, acqVars, runVars, boxVars>>
otherThanBox  == <<partVars, loadVars, acqVars, runVars, dictVars>>

NoValue == "None"

Min(a, b) == IF a < b THEN a ELSE b
Max(a, b) == IF a > b THEN a ELSE b

(***************************************************************************)
(* Bounds                                                                  *)
(***************************************************************************)
MaxItems == 4             \* longest list handed to partition (short lists)
MaxFiles == 2             \* most .json files under files/
MaxImages == 3            \* most images handed to _load_images
MaxRunImages == 2         \* most images of the package of a whole run
MaxCalls == 4             \* most labels given to one Dictionary
MaxConversions == 2       \* most conversions applied to one BoundingBox

(***************************************************************************)
(* utils/data.py: PartitionManager                                         *)
(***************************************************************************)
\* Fractions the caller may pass: the slider values of the UI and a few
\* values off the slider grid, all even so that no sum is a rounding tie.
SplitValues == {0, 10, 90, 96, 100, 200, 300, 500, 700, 904, 1000}

\* Lengths of the long lists handed to partition.
LargeSizes == {90, 100}

Splits == [train : SplitValues, validation : SplitValues, test : SplitValues]

\* round(x, 2) of a value in thousandths, in hundredths (round half to even).
Round2(x) ==
    LET q == x \div 10
        r == x % 10
    IN  IF r > 5 \/ (r = 5 /\ q % 2 = 1) THEN q + 1 ELSE q

Mut_sum_split(s) == (s.train + s.validation + s.test) \div 10

sum_split(s) == Round2(s.train + s.validation + s.test)

\* 2^e
RECURSIVE Pow2(_)
Pow2(e) == IF e = 0 THEN 1 ELSE 2 * Pow2(e - 1)

\* 2^e modulo 1000
RECURSIVE Pow2Mod(_)
Pow2Mod(e) == IF e = 0 THEN 1 ELSE (2 * Pow2Mod(e - 1)) % 1000

\* floor(log2(j)) of a positive integer: the binary exponent of float(j).
RECURSIVE Log2Floor(_)
Log2Floor(j) == IF j < 2 THEN 0 ELSE 1 + Log2Floor(j \div 2)

\* The fractions are Python floats.  A fraction of `fraction` thousandths,
\* 0 < fraction < 1000, is held as the binary64 value m / 2^(52 + t) nearest
\* to it, m in [2^52, 2^53); FloatShift is that t.
RECURSIVE FloatShift(_)
FloatShift(fraction) ==
    IF fraction >= 1000 THEN 0 ELSE 1 + FloatShift(2 * fraction)

\* 1000 * m - fraction * 2^(52 + t): the sign and size of the error of the
\* stored fraction, in units of 1 / (1000 * 2^(52 + t)).  The remainder is a
\* multiple of 8 and so never the tie 500.
FloatError(fraction) ==
    IF fraction = 0 \/ fraction = 1000 THEN 0
    ELSE LET rem == (fraction * Pow2Mod(52 + FloatShift(fraction))) % 1000
         IN  IF rem < 500 THEN 0 - rem ELSE 1000 - rem

\* math.floor(len(dataset) * fraction): the product of two floats is the
\* binary64 value nearest to the exact product (ties to even), and then
\* floored.  When n * fraction / 1000 is not an integer the rounding cannot
\* reach an integer; when it is an integer j, the product of the stored
\* values is j + n * FloatError / (1000 * 2^(52 + t)), and it rounds to the
\* float below j when it lies more than half a spacing below j.
FloorMul(n, fraction) ==
    LET j == (n * fraction) \div 1000
        r == FloatError(fraction)
        p == Log2Floor(j)
        t == FloatShift(fraction)
        half == IF j = Pow2(p) THEN 1000 * Pow2(p + t - 2)
                               ELSE 1000 * Pow2(p + t - 1)
    IN  IF (n * fraction) % 1000 # 0 \/ j = 0 \/ r >= 0 THEN j
        ELSE IF n * (0 - r) > half THEN j - 1 ELSE j

\* Python's slice bounds: a negative index counts from the end, and both
\* ends are clamped to the list.
PyIndex(i, n) == IF i < 0 THEN Max(n + i, 0) ELSE Min(i, n)

\* s[lo:hi]
Slice(s, lo, hi) == SubSeq(s, PyIndex(lo, Len(s)) + 1, PyIndex(hi, Len(s)))

idx_split_1(ds, s) == FloorMul(Len(ds), s.train)

Mut_idx_split_2(ds, s) == FloorMul(Len(ds), s.validation)

idx_split_2(ds, s) == idx_split_1(ds, s) + FloorMul(Len(ds), s.validation)

\* The value partition returns when the sum check passes.
partition(ds, s) ==
    [train      |-> Slice(ds, 0, idx_split_1(ds, s)),
     validation |-> Slice(ds, idx_split_1(ds, s), idx_split_2(ds, s)),
     test       |-> Slice(ds, idx_split_2(ds, s), Len(ds))]

(***************************************************************************)
(* entities/MuRET/Dictionary.py                                            *)
(***************************************************************************)
DictNames == {"region_types", "agnostic_symbol_types", "agnostic_positions_in_staff"}

Range(s) == {s[i] : i \in DOMAIN s}

\* list.index(label): the 0-based position of the first occurrence.
ListIndex(label_list, label) ==
    (CHOOSE i \in DOMAIN label_list :
        /\ label_list[i] = label
        /\ \A j \in DOMAIN label_list : label_list[j] = label => i <= j) - 1

\* Dictionary.contains: label in self.inverted
contains(d, label) == label \in DOMAIN d.inverted

Mut_add_unchecked(d, label) ==
    LET appended == Append(d.label_list, label)
    IN  [label_list |-> appended,
         inverted   |-> (label :> ListIndex(appended, label)) @@ d.inverted]

Mut_add_front(d, label) ==
    IF label \in Range(d.label_list)
    THEN d
    ELSE LET appended == <<label>> \o d.label_list
         IN  [label_list |-> appended,
              inverted   |-> d.inverted @@ (label :> ListIndex(appended, label))]

\* Dictionary.add run without interruption (the constructor's use of it).
add(d, label) ==
    IF label \in Range(d.label_list)
    THEN d
    ELSE LET appended == Append(d.label_list, label)
         IN  [label_list |-> appended,
              inverted   |-> d.inverted @@ (label :> ListIndex(appended, label))]

RECURSIVE AddAll(_, _)
AddAll(d, label_list) ==
    IF label_list = <<>> THEN d
    ELSE AddAll(add(d, Head(label_list)), Tail(label_list))

\* Dictionary.__init__(label_list)
Dictionary(label_list) == AddAll([label_list |-> <<>>, inverted |-> <<>>], label_list)

\* Dictionary.size
size(d) == Len(d.label_list)

\* Dictionary.label: it raises MuRETException for a negative index and for
\* an index past the list, and returns the label at the index otherwise.
Dictionary_label_raises(d, index) == index < 0 \/ index >= Len(d.label_list)

Dictionary_label(d, index) == d.label_list[index + 1]

\* The labels a caller may use.
Labels == {"a", "b", "c"}

\* The Dictionary's variables while another component is checked on its own.
DictIdle ==
    /\ dictionary = <<>>
    /\ added = <<>>
    /\ lookup = <<>>

\* The BoundingBox's variables while another component is checked on its own.
BoxIdle ==
    /\ bbOrigin = <<>>
    /\ bbDims = <<>>
    /\ bb = <<>>
    /\ bbCalls = <<>>
    /\ bbRaised = FALSE

(***************************************************************************)
(* entities/MuRET/Package.py                                               *)
(***************************************************************************)
\* The label arrays of dictionary.json.
DictionaryJson ==
    [region_types                |-> <<"page", "staff", "undefined">>,
     agnostic_symbol_types       |-> <<"clef", "note">>,
     agnostic_positions_in_staff |-> <<"L1">>]

\* The three Dictionaries as Dictionary.from_json builds them.
DictionaryJsonDicts == [d \in DictNames |-> Dictionary(DictionaryJson[d])]

\* The order in which Package.__init__ reads the Dictionaries.
DictOrder == <<"region_types", "agnostic_symbol_types", "agnostic_positions_in_staff">>

\* The root element of dictionary.json a Dictionary is read from.
RootElement(d) == IF d = "region_types" THEN "region_dictionary" ELSE d

\* dictionary.json with every root element, and with one of them absent.
DictionaryJsonFiles ==
    {[r \in {RootElement(d) : d \in DictNames \ absent} |->
        DictionaryJson[CHOOSE d \in DictNames : RootElement(d) = r]] :
     absent \in {{}, {"region_types"}, {"agnostic_symbol_types"}}}

\* MuRETException("No root element named <root>'")
NoRootElement(root) ==
    [kind |-> "error", type |-> "MuRETException", file |-> 0,
     dict |-> root, label |-> NoValue]

Rec(d, l) == [dict |-> d, label |-> l]

\* The files a package may hold.  An "ok" file is listed by the labels
\* read_file looks up, in the order it meets them: a region's type, then
\* its symbols' agnostic_symbol_type and position_in_staff.
FileShapes ==
    { [kind |-> "malformed", recs |-> <<>>],          \* not JSON
      [kind |-> "nokey",     recs |-> <<>>],          \* no id, url or filename
      [kind |-> "ok", recs |-> <<>>],
      [kind |-> "ok", recs |-> <<Rec("region_types", "staff")>>],
      [kind |-> "ok", recs |-> <<Rec("region_types", "x")>>],
      [kind |-> "ok", recs |-> <<Rec("region_types", "staff"),
                                 Rec("agnostic_symbol_types", "x")>>],
      [kind |-> "ok", recs |-> <<Rec("region_types", "staff"),
                                 Rec("agnostic_symbol_types", "clef"),
                                 Rec("agnostic_positions_in_staff", "x")>>],
      [kind |-> "ok", recs |-> <<Rec("region_types", "staff"),
                                 Rec("agnostic_symbol_types", "clef"),
                                 Rec("agnostic_positions_in_staff", "L1")>>] }

FileIds == DOMAIN files

\* DatasetFile's sort key (folder_structure, name): the rank of the relative
\* folder and the rank of the base name.
FileKey(f) == <<f % 2, f>>

KeyLess(k1, k2) == k1[1] < k2[1] \/ (k1[1] = k2[1] /\ k1[2] < k2[2])

RECURSIVE InsertSorted(_, _)
InsertSorted(s, f) ==
    IF s = <<>> THEN <<f>>
    ELSE IF KeyLess(FileKey(f), FileKey(Head(s))) THEN <<f>> \o s
    ELSE <<Head(s)>> \o InsertSorted(Tail(s), f)

Mut_SortFiles(s) == s

\* files.sort(key=attrgetter('folder_structure', 'name'))
RECURSIVE SortFiles(_)
SortFiles(s) == IF s = <<>> THEN <<>> ELSE InsertSorted(SortFiles(Tail(s)), Head(s))

TaskOver(f) == wpc[f] \in {"returned", "raised"}

ImageResult(f) == [kind |-> "image", file |-> f]

KeyError(f) == [kind |-> "error", type |-> "KeyError", file |-> f]

JSONDecodeError(f) == [kind |-> "error", type |-> "JSONDecodeError", file |-> f]

\* MuRETException('... "<label>" not found in dictionary. A new entry will be created.')
UnknownLabel(f, rec) ==
    [kind |-> "error", type |-> "MuRETException", file |-> f,
     dict |-> rec.dict, label |-> rec.label]

\* IOError('... <path> does not exist')
IOError(path) == [kind |-> "error", type |-> "IOError", path |-> path]

\* What may exist on disk: dictionary.json and files/ are inside the folder.
PathSets == {{}, {"folder"}, {"folder", "dictionary.json"}, {"folder", "files"},
             {"folder", "dictionary.json", "files"}}

EmptyPackage == [kind |-> "error", type |-> "MuRETException", file |-> 0,
                 dict |-> NoValue, label |-> NoValue]

CurrentRec(f) == files[f].recs[wrec[f]]

(***************************************************************************)
(* utils/image.py: RemoteImage and the cache of downloaded images          *)
(***************************************************************************)
Urls == {"u1", "u2"}

\* AbstractImage._get_local_filename: sha256(url).hexdigest()[:13].  Equal
\* urls give equal names; the urls of the model have different digests.
get_local_filename(url) == IF url = "u1" THEN "4be1c0f3a9d27" ELSE "9a0e31c57bb40"

Keys == {get_local_filename(u) : u \in Urls}

ImageIds == DOMAIN imgUrl

\* The acquisition's variables while another component is checked.
AcqIdle ==
    /\ imgUrl = <<>>
    /\ disk = <<>>
    /\ lock = 0
    /\ apc = <<>>
    /\ ares = <<>>
    /\ fetches = <<>>
    /\ writes = <<>>
    /\ acollected = {}
    /\ original_images = <<>>

(***************************************************************************)
(* entities/YOLO/BoundigBox.py, Object.py, Image.py                        *)
(***************************************************************************)
\* One pixel, and 1.0, in the unit of the coordinates: half of the fifth
\* decimal.
Unit == 200000

\* round(n / d) to the nearest integer, halves to even (Python's round).
RoundDiv(n, d) ==
    LET q == n \div d
        r == n % d
    IN  IF 2 * r > d \/ (2 * r = d /\ q % 2 = 1) THEN q + 1 ELSE q

\* round(n / d, 5) of a value n / d counted in units: the nearest fifth
\* decimal, which is an even number of units.
Round5(n, d) == 2 * RoundDiv(n, 2 * d)

\* x * num / den without leaving the machine integers.
MulDiv(x, num, den) == (x \div den) * num + ((x % den) * num) \div den

SUPPORTED_OD_FORMATS == {"yolo", "coco", "pascal"}

BoundingBox(a, b, c, d, format) ==
    [a |-> a, b |-> b, c |-> c, d |-> d, current_format |-> format]

\* BoundingBox.from_MuRET
from_MuRET(bbox) ==
    BoundingBox(bbox.fromX * Unit, bbox.fromY * Unit,
                bbox.toX * Unit, bbox.toY * Unit, "pascal")

Dimensions(width, height) == [width |-> width, height |-> height]

\* BoundingBox.resize with scale_factor = (to.width / from.width,
\* to.height / from.height): the four numbers are scaled, the tag is kept.
box_resize(box, from, to) ==
    [box EXCEPT !.a = MulDiv(@, to.width, from.width),
                !.b = MulDiv(@, to.height, from.height),
                !.c = MulDiv(@, to.width, from.width),
                !.d = MulDiv(@, to.height, from.height)]

\* The img_dims argument of the conversions is <<>> for None and
\* <<Dimensions>> otherwise.  For each conversion, X_raises tells whether it
\* raises ValueError and X is the box it returns when it does not.
Mut_to_yolo(box, img_dims) ==
    BoundingBox(Round5(box.a, img_dims[1].width),
                Round5(box.b, img_dims[1].height),
                Round5(box.c - box.a, img_dims[1].width),
                Round5(box.d - box.b, img_dims[1].height), "yolo")

to_yolo_raises(box, img_dims) == box.current_format # "yolo" /\ img_dims = <<>>

\* BoundingBox.to_yolo
to_yolo(box, img_dims) ==
    IF box.current_format = "yolo" THEN box
    ELSE IF box.current_format = "pascal"
    THEN BoundingBox(Round5(box.a + box.c, 2 * img_dims[1].width),
                     Round5(box.b + box.d, 2 * img_dims[1].height),
                     Round5(box.c - box.a, img_dims[1].width),
                     Round5(box.d - box.b, img_dims[1].height), "yolo")
    ELSE BoundingBox(Round5(2 * box.a + box.c, 2 * img_dims[1].width),
                     Round5(2 * box.b + box.d, 2 * img_dims[1].height),
                     Round5(box.c, img_dims[1].width),
                     Round5(box.d, img_dims[1].height), "yolo")

Mut_to_coco_raises(box, img_dims) == box.current_format # "coco" /\ img_dims = <<>>

to_coco_raises(box, img_dims) == box.current_format = "yolo" /\ img_dims = <<>>

Mut_to_coco(box, img_dims) ==
    IF box.current_format = "yolo"
    THEN LET width == box.c * img_dims[1].width
             height == box.d * img_dims[1].height
             x == box.a * img_dims[1].width - (width \div 2)
             y == box.b * img_dims[1].height - (height \div 2)
         IN  BoundingBox(x, y, width, height, "coco")
    ELSE BoundingBox(box.a, box.b, box.c - box.a, box.d - box.b, "coco")

\* BoundingBox.to_coco.  A yolo box holds fifth decimals, an even number of
\* units, so the halved width is a whole number of units.
to_coco(box, img_dims) ==
    IF box.current_format = "coco" THEN box
    ELSE IF box.current_format = "yolo"
    THEN LET width == box.c * img_dims[1].width
             height == box.d * img_dims[1].height
             x == box.a * img_dims[1].width - (width \div 2)
             y == box.b * img_dims[1].height - (height \div 2)
         IN  BoundingBox(x, y, width, height, "coco")
    ELSE BoundingBox(box.a, box.b, box.c - box.a, box.d - box.b, "coco")

to_pascal_raises(box, img_dims) == box.current_format = "yolo" /\ img_dims = <<>>

Mut_to_pascal(box, img_dims) ==
    IF box.current_format = "pascal" THEN box
    ELSE IF box.current_format = "yolo"
    THEN LET width == box.c * img_dims[1].width
             height == box.d * img_dims[1].height
             x == box.a * img_dims[1].width
             y == box.b * img_dims[1].height
         IN  BoundingBox(x, y, x + width, y + height, "pascal")
    ELSE BoundingBox(box.a, box.b, box.a + box.c, box.b + box.d, "pascal")

\* BoundingBox.to_pascal
to_pascal(box, img_dims) ==
    IF box.current_format = "pascal" THEN box
    ELSE IF box.current_format = "yolo"
    THEN LET width == box.c * img_dims[1].width
             height == box.d * img_dims[1].height
             x == box.a * img_dims[1].width - (width \div 2)
             y == box.b * img_dims[1].height - (height \div 2)
         IN  BoundingBox(x, y, x + width, y + height, "pascal")
    ELSE BoundingBox(box.a, box.b, box.a + box.c, box.b + box.d, "pascal")

\* BoundingBox.to: getattr(self, f'to_{format}')(img_dims)
to_raises(box, format, img_dims) ==
    CASE format = "yolo" -> to_yolo_raises(box, img_dims)
      [] format = "coco" -> to_coco_raises(box, img_dims)
      [] format = "pascal" -> to_pascal_raises(box, img_dims)

to(box, format, img_dims) ==
    CASE format = "yolo" -> to_yolo(box, img_dims)
      [] format = "coco" -> to_coco(box, img_dims)
      [] format = "pascal" -> to_pascal(box, img_dims)

\* Object(label, bounding_box)
Object(label, bounding_box) == [label |-> label, bounding_box |-> bounding_box]

\* Object.preprocess('yolo', img_dims, resized_dims): what the Object holds
\* afterwards.  The box it was given is scaled in place (PreprocessedBox).
PreprocessedBox(box, img_dims, resized_dims) == box_resize(box, img_dims, resized_dims)

preprocess(obj, img_dims, resized_dims) ==
    [obj EXCEPT !.bounding_box =
        to(PreprocessedBox(obj.bounding_box, img_dims, resized_dims), "yolo",
           <<resized_dims>>)]

(***************************************************************************)
(* transcoders/MuRET2YOLO.py, transcoders/Transcoder.py                    *)
(***************************************************************************)
ObjectsToDetectKind == {"REGIONS", "SYMBOLS_IN_REGIONS", "SYMBOLS_IN_IMAGES"}

isStaffWise == mode = "SYMBOLS_IN_REGIONS"

isRegionsTranscode == mode = "REGIONS"

\* The sizes the UI offers.  Under 128 the UI passes None as resize.
ResizeValues == {0, 200}

\* The pixel size of every downloaded image.
ContentSize == Dimensions(100, 200)

MuretBox(x1, y1, x2, y2) == [fromX |-> x1, fromY |-> y1, toX |-> x2, toY |-> y2]

\* The "pages" of the JSON files a package may hold.
JsonSymbol(type, position, bbox) ==
    [agnostic_symbol_type |-> type, position_in_staff |-> position, bounding_box |-> bbox]

JsonPages ==
    { << [bounding_box |-> MuretBox(0, 0, 100, 200),
          regions |-> << [type |-> "staff",
                          bounding_box |-> MuretBox(10, 10, 90, 190),
                          symbols |-> <<JsonSymbol("clef", "L1", MuretBox(12, 20, 20, 60))>>] >>] >>,
      << [bounding_box |-> MuretBox(0, 0, 100, 200),
          regions |-> << [type |-> "undefined",
                          bounding_box |-> MuretBox(10, 10, 90, 190),
                          symbols |-> <<>>],
                         [type |-> "staff",
                          bounding_box |-> MuretBox(20, 100, 80, 150),
                          symbols |-> <<JsonSymbol("clef", "L1", MuretBox(22, 110, 30, 140)),
                                        JsonSymbol("note", "L1", MuretBox(40, 110, 48, 140))>>] >>] >> }

\* The Dictionaries of a run: those of DictionaryJson, and the same with a
\* region_dictionary that has no "page".
RunDictionaries ==
    { DictionaryJsonDicts,
      [DictionaryJsonDicts EXCEPT !["region_types"] = Dictionary(<<"staff", "undefined">>)] }

\* The fractions of a run: the UI's defaults, everything in train, and a
\* triple the sum check rejects.
RunSplits ==
    { [train |-> 700, validation |-> 200, test |-> 100],
      [train |-> 1000, validation |-> 0, test |-> 0],
      [train |-> 500, validation |-> 200, test |-> 100] }

\* read_file: the Pages and Regions built from the pages of a JSON file.
BuildPages(pages) ==
    [p \in DOMAIN pages |->
        [bounding_box |-> from_MuRET(pages[p].bounding_box),
         regions |-> [r \in DOMAIN pages[p].regions |->
                        [type |-> pages[p].regions[r].type,
                         bounding_box |-> from_MuRET(pages[p].regions[r].bounding_box),
                         symbols |-> [y \in DOMAIN pages[p].regions[r].symbols |->
                            [agnostic_symbol_type |-> pages[p].regions[r].symbols[y].agnostic_symbol_type,
                             position_in_staff |-> pages[p].regions[r].symbols[y].position_in_staff,
                             bounding_box |-> from_MuRET(pages[p].regions[r].symbols[y].bounding_box)]]]]]]

\* Dictionary.index_of: it raises MuRETException for a label it lacks, and
\* returns the label's index otherwise.
index_of_raises(d, label) == label \notin DOMAIN d.inverted

index_of(d, label) == d.inverted[label]

\* __generate_dataYAML: the dictionary it exports, and the names it writes.
ManifestDictionary ==
    IF isStaffWise THEN dicts["region_types"] ELSE dicts["agnostic_symbol_types"]

generate_dataYAML ==
    [index \in {index_of(ManifestDictionary, label) :
                    label \in Range(ManifestDictionary.label_list)} |->
        CHOOSE label \in Range(ManifestDictionary.label_list) :
            index_of(ManifestDictionary, label) = index]

RECURSIVE Flatten(_)
Flatten(ss) == IF ss = <<>> THEN <<>> ELSE Head(ss) \o Flatten(Tail(ss))

\* The regions of a page __generate_full_image makes Objects of.
DetectedRegions(page) ==
    LET F[k \in 0..Len(page.regions)] ==
            IF k = 0 THEN <<>>
            ELSE IF page.regions[k].type # "undefined"
                 THEN Append(F[k - 1], k) ELSE F[k - 1]
    IN  F[Len(page.regions)]

\* __generate_full_image in REGIONS mode: the Objects before ImageYOLO
\* preprocesses them, page by page: the page, then its regions.
objects_to_detect(pages) ==
    Flatten([p \in DOMAIN pages |->
        <<Object(index_of(dicts["region_types"], "page"), pages[p].bounding_box)>>
        \o [k \in DOMAIN DetectedRegions(pages[p]) |->
              Object(index_of(dicts["region_types"],
                              pages[p].regions[DetectedRegions(pages[p])[k]].type),
                     pages[p].regions[DetectedRegions(pages[p])[k]].bounding_box)]])

\* The labels those Objects were derived from, in the same order.
SourceLabels(pages) ==
    Flatten([p \in DOMAIN pages |->
        <<"page">> \o [k \in DOMAIN DetectedRegions(pages[p]) |->
                          pages[p].regions[DetectedRegions(pages[p])[k]].type]])

\* NumpyGrayscaleImageTranscoder.encode: the size of the array it returns.
ResizedDims ==
    IF resize < 128 THEN ContentSize ELSE Dimensions(resize, resize)

\* ImageYOLO(file_name, image_array, objects, img_dims)
ImageYOLO(i, objects) ==
    [image |-> i,
     file_name |-> get_local_filename(imgUrl[i]),
     objects |-> [k \in DOMAIN objects |-> preprocess(objects[k], ContentSize, ResizedDims)]]

\* Object.preprocess resizes the box it was given, which is the box of the
\* Page or Region: the pages of an image after its Objects were preprocessed.
PagesAfterPreprocess(pages) ==
    [p \in DOMAIN pages |->
        [bounding_box |-> PreprocessedBox(pages[p].bounding_box, ContentSize, ResizedDims),
         regions |-> [r \in DOMAIN pages[p].regions |->
            IF pages[p].regions[r].type # "undefined"
            THEN [pages[p].regions[r] EXCEPT !.bounding_box =
                     PreprocessedBox(@, ContentSize, ResizedDims)]
            ELSE pages[p].regions[r]]]]

\* All the orders in which the members of a set can complete.
Arrangements(S) ==
    {s \in UNION {[1..n -> S] : n \in 0..Cardinality(S)} :
        \A i, j \in DOMAIN s : s[i] = s[j] => i = j}

SplitNames == <<"train", "validation", "test">>

\* The run's variables while another component is checked on its own.
RunIdle ==
    /\ mode = NoValue
    /\ resize = 0
    /\ json = <<>>
    /\ graph = <<>>
    /\ folders = FALSE
    /\ manifest = <<>>
    /\ generated = <<>>
    /\ gcollected = {}
    /\ yolo_images = <<>>
    /\ split_at = 0
    /\ saved = {}
    /\ outputs = {}
    /\ runpc = "idle"
    /\ runError = NoValue

\* The load's variables while another component is checked on its own.
LoadIdle ==
    /\ paths = {}
    /\ dictionary_json = <<>>
    /\ dicts = <<>>
    /\ files = <<>>
    /\ jpc = <<>>
    /\ loaded = <<>>
    /\ collected = {}
    /\ wpc = <<>>
    /\ wrec = <<>>
    /\ wres = <<>>
    /\ training_set_images = <<>>
    /\ pkgpc = "idle"
    /\ pkgError = NoValue

\* partition's variables while another component is checked on its own.
PartIdle ==
    /\ dataset = <<>>
    /\ splits = NoValue
    /\ partitions = NoValue
    /\ ppc = "idle"

InitPartition ==
    /\ \E n \in (0..MaxItems) \cup LargeSizes : dataset = [i \in 1..n |-> i]
    /\ splits \in Splits
    /\ partitions = NoValue
    /\ ppc = "ready"
    /\ LoadIdle
    /\ AcqIdle
    /\ RunIdle
    /\ DictIdle
    /\ BoxIdle

PartitionRaise ==
    /\ ppc = "ready"
    /\ sum_split(splits) # 100
    /\ ppc' = "raised"
    /\ UNCHANGED <<dataset, splits, partitions>>
    /\ UNCHANGED otherThanPart

PartitionReturn ==
    /\ ppc = "ready"
    /\ sum_split(splits) = 100
    /\ partitions' = partition(dataset, splits)
    /\ ppc' = "returned"
    /\ UNCHANGED <<dataset, splits>>
    /\ UNCHANGED otherThanPart

NextPartition == PartitionRaise \/ PartitionReturn

SpecPartition == InitPartition /\ [][NextPartition]_vars

InitLoad ==
    /\ paths \in PathSets
    /\ IF "dictionary.json" \in paths
       THEN dictionary_json \in DictionaryJsonFiles
       ELSE dictionary_json = <<>>
    /\ dicts = <<>>
    /\ IF "files" \in paths
       THEN \E n \in 0..MaxFiles : files \in [1..n -> FileShapes]
       ELSE files = <<>>
    /\ jpc = [f \in DOMAIN files |-> "unsubmitted"]
    /\ loaded = <<>>
    /\ collected = {}
    /\ wpc = [f \in DOMAIN files |-> "idle"]
    /\ wrec = [f \in DOMAIN files |-> 0]
    /\ wres = [f \in DOMAIN files |-> NoValue]
    /\ training_set_images = <<>>
    /\ pkgpc = "start"
    /\ pkgError = NoValue
    /\ PartIdle
    /\ AcqIdle
    /\ RunIdle
    /\ DictIdle
    /\ BoxIdle

Mut_CheckPaths ==
    /\ pkgpc = "start"
    /\ pkgpc' = "init"
    /\ UNCHANGED <<paths, dictionary_json, dicts, files, jpc, loaded, collected, wpc,
                   wrec, wres, training_set_images, pkgError>>
    /\ UNCHANGED otherThanLoad

\* Package.__init__: the two os.path.exists checks, of the folder and then
\* of dictionary.json in it.
CheckPaths ==
    /\ pkgpc = "start"
    /\ IF "folder" \notin paths
       THEN /\ pkgpc' = "failed"
            /\ pkgError' = IOError("folder")
       ELSE IF "dictionary.json" \notin paths
       THEN /\ pkgpc' = "failed"
            /\ pkgError' = IOError("dictionary.json")
       ELSE /\ pkgpc' = "init"
            /\ UNCHANGED pkgError
    /\ UNCHANGED <<paths, dictionary_json, dicts, files, jpc, loaded, collected, wpc,
                   wrec, wres, training_set_images>>
    /\ UNCHANGED otherThanLoad

\* Dictionary.from_json raises for these roots, in the order of the calls.
MissingRoots ==
    SelectSeq(DictOrder, LAMBDA d : RootElement(d) \notin DOMAIN dictionary_json)

Mut_LoadDictionaries ==
    /\ pkgpc = "init"
    /\ IF MissingRoots = <<>>
       THEN /\ dicts' = [d \in DictNames |-> Dictionary(dictionary_json[RootElement(d)])]
            /\ pkgpc' = "walk"
            /\ UNCHANGED <<pkgError, jpc>>
       ELSE /\ dicts' = dicts
            /\ jpc' = [f \in DOMAIN files |-> "submitted"]
            /\ pkgpc' = "unwinding"
            /\ pkgError' = NoRootElement(RootElement(Head(MissingRoots)))
    /\ UNCHANGED <<paths, dictionary_json, files, loaded, collected, wpc, wrec, wres,
                   training_set_images>>
    /\ UNCHANGED otherThanLoad

\* Package.__init__: the three Dictionary.from_json calls.  The first root
\* element that is absent raises MuRETException out of __init__; the
\* Dictionaries read before it stay assigned.
LoadDictionaries ==
    /\ pkgpc = "init"
    /\ IF MissingRoots = <<>>
       THEN /\ dicts' = [d \in DictNames |-> Dictionary(dictionary_json[RootElement(d)])]
            /\ pkgpc' = "walk"
            /\ UNCHANGED pkgError
       ELSE /\ dicts' = [d \in {DictOrder[k] : k \in 1..(ListIndex(DictOrder, Head(MissingRoots)))} |->
                            Dictionary(dictionary_json[RootElement(d)])]
            /\ pkgpc' = "failed"
            /\ pkgError' = NoRootElement(RootElement(Head(MissingRoots)))
    /\ UNCHANGED <<paths, dictionary_json, files, jpc, loaded, collected, wpc, wrec, wres,
                   training_set_images>>
    /\ UNCHANGED otherThanLoad

\* PackageFilesLoader._load_folder: os.walk finds the .json files and a
\* _load_json task is submitted for each.
SubmitLoadJson ==
    /\ pkgpc = "walk"
    /\ IF "files" \notin paths
       THEN /\ pkgpc' = "failed"
            /\ pkgError' = IOError("files")
            /\ UNCHANGED jpc
       ELSE /\ jpc' = [f \in DOMAIN files |-> "submitted"]
            /\ pkgpc' = "load_folder"
            /\ UNCHANGED pkgError
    /\ UNCHANGED <<paths, dictionary_json, dicts, files, loaded, collected, wpc, wrec, wres,
                   training_set_images>>
    /\ UNCHANGED otherThanLoad

\* PackageFilesLoader._load_json on a pool thread: json.loads raises on a
\* file that is not JSON.
LoadJson(f) ==
    /\ jpc[f] = "submitted"
    /\ jpc' = [jpc EXCEPT ![f] = IF files[f].kind = "malformed" THEN "raised" ELSE "parsed"]
    /\ UNCHANGED <<paths, dictionary_json, dicts, files, loaded, collected, wpc, wrec, wres,
                   training_set_images, pkgpc, pkgError>>
    /\ UNCHANGED otherThanLoad

\* _load_folder: one turn of "for future in as_completed(futures)".
CollectFile(f) ==
    /\ pkgpc = "load_folder"
    /\ f \notin collected
    /\ jpc[f] # "submitted"
    /\ collected' = collected \cup {f}
    /\ IF jpc[f] = "raised"
       THEN /\ pkgpc' = "unwinding"
            /\ pkgError' = JSONDecodeError(f)
            /\ UNCHANGED loaded
       ELSE /\ loaded' = Append(loaded, f)
            /\ UNCHANGED <<pkgpc, pkgError>>
    /\ UNCHANGED <<paths, dictionary_json, dicts, files, jpc, wpc, wrec, wres, training_set_images>>
    /\ UNCHANGED otherThanLoad

\* load: files.sort; Package.__init__: the empty check, then the submits.
SortAndSubmit ==
    /\ pkgpc = "load_folder"
    /\ collected = FileIds
    /\ IF FileIds = {}
       THEN /\ pkgpc' = "failed"
            /\ pkgError' = EmptyPackage
            /\ UNCHANGED <<loaded, wpc, collected>>
       ELSE /\ loaded' = SortFiles(loaded)
            /\ wpc' = [f \in FileIds |-> "started"]
            /\ collected' = {}
            /\ pkgpc' = "read_files"
            /\ UNCHANGED pkgError
    /\ UNCHANGED <<paths, dictionary_json, dicts, files, jpc, wrec, wres, training_set_images>>
    /\ UNCHANGED otherThanLoad

\* read_file up to its first dictionary lookup.
ReadFile(f) ==
    /\ wpc[f] = "started"
    /\ IF files[f].kind = "nokey"
       THEN /\ wpc' = [wpc EXCEPT ![f] = "raised"]
            /\ wres' = [wres EXCEPT ![f] = KeyError(f)]
            /\ UNCHANGED wrec
       ELSE IF files[f].recs = <<>>
       THEN /\ wpc' = [wpc EXCEPT ![f] = "returned"]
            /\ wres' = [wres EXCEPT ![f] = ImageResult(f)]
            /\ UNCHANGED wrec
       ELSE /\ wpc' = [wpc EXCEPT ![f] = "contains"]
            /\ wrec' = [wrec EXCEPT ![f] = 1]
            /\ UNCHANGED wres
    /\ UNCHANGED <<paths, dictionary_json, dicts, files, jpc, loaded, collected,
                   training_set_images, pkgpc, pkgError>>
    /\ UNCHANGED otherThanLoad

\* read_file: "if not <dictionary>.contains(<label>)".
CheckContains(f) ==
    /\ wpc[f] = "contains"
    /\ IF contains(dicts[CurrentRec(f).dict], CurrentRec(f).label)
       THEN IF wrec[f] = Len(files[f].recs)
            THEN /\ wpc' = [wpc EXCEPT ![f] = "returned"]
                 /\ wres' = [wres EXCEPT ![f] = ImageResult(f)]
                 /\ UNCHANGED wrec
            ELSE /\ wrec' = [wrec EXCEPT ![f] = @ + 1]
                 /\ UNCHANGED <<wpc, wres>>
       ELSE /\ wpc' = [wpc EXCEPT ![f] = "add"]
            /\ UNCHANGED <<wrec, wres>>
    /\ UNCHANGED <<paths, dictionary_json, dicts, files, jpc, loaded, collected,
                   training_set_images, pkgpc, pkgError>>
    /\ UNCHANGED otherThanLoad

\* read_file skipping the registration (used to test C5).
Mut_AddCheck(f) ==
    /\ wpc[f] = "add"
    /\ wpc' = [wpc EXCEPT ![f] = "raised"]
    /\ wres' = [wres EXCEPT ![f] = UnknownLabel(f, CurrentRec(f))]
    /\ UNCHANGED <<paths, dictionary_json, dicts, files, jpc, loaded, collected, wrec,
                   training_set_images, pkgpc, pkgError>>
    /\ UNCHANGED otherThanLoad

\* Dictionary.add: "if label not in self.label_list"; when the label is
\* there add returns and read_file raises.
AddCheck(f) ==
    /\ wpc[f] = "add"
    /\ IF CurrentRec(f).label \in Range(dicts[CurrentRec(f).dict].label_list)
       THEN /\ wpc' = [wpc EXCEPT ![f] = "raised"]
            /\ wres' = [wres EXCEPT ![f] = UnknownLabel(f, CurrentRec(f))]
       ELSE /\ wpc' = [wpc EXCEPT ![f] = "append"]
            /\ UNCHANGED wres
    /\ UNCHANGED <<paths, dictionary_json, dicts, files, jpc, loaded, collected, wrec,
                   training_set_images, pkgpc, pkgError>>
    /\ UNCHANGED otherThanLoad

\* Dictionary.add: self.label_list.append(label)
AddAppend(f) ==
    /\ wpc[f] = "append"
    /\ dicts' = [dicts EXCEPT ![CurrentRec(f).dict].label_list =
                                  Append(@, CurrentRec(f).label)]
    /\ wpc' = [wpc EXCEPT ![f] = "index"]
    /\ UNCHANGED <<paths, dictionary_json, files, jpc, loaded, collected, wrec, wres,
                   training_set_images, pkgpc, pkgError>>
    /\ UNCHANGED otherThanLoad

\* Dictionary.add: self.inverted[label] = self.label_list.index(label);
\* add returns and read_file raises.
AddIndex(f) ==
    /\ wpc[f] = "index"
    /\ LET d == dicts[CurrentRec(f).dict]
           l == CurrentRec(f).label
       IN  dicts' = [dicts EXCEPT ![CurrentRec(f).dict].inverted =
                        [x \in DOMAIN d.inverted \cup {l} |->
                            IF x = l THEN ListIndex(d.label_list, l)
                            ELSE d.inverted[x]]]
    /\ wpc' = [wpc EXCEPT ![f] = "raised"]
    /\ wres' = [wres EXCEPT ![f] = UnknownLabel(f, CurrentRec(f))]
    /\ UNCHANGED <<paths, dictionary_json, files, jpc, loaded, collected, wrec,
                   training_set_images, pkgpc, pkgError>>
    /\ UNCHANGED otherThanLoad

\* Package.__init__: one turn of "for future in as_completed(futures)":
\* future.result() returns the Image or raises what read_file raised.
CollectImage(f) ==
    /\ pkgpc = "read_files"
    /\ f \notin collected
    /\ TaskOver(f)
    /\ collected' = collected \cup {f}
    /\ IF wpc[f] = "raised"
       THEN /\ pkgpc' = "unwinding"
            /\ pkgError' = wres[f]
            /\ UNCHANGED training_set_images
       ELSE /\ training_set_images' = Append(training_set_images, f)
            /\ pkgpc' = IF collected' = FileIds THEN "done" ELSE "read_files"
            /\ UNCHANGED pkgError
    /\ UNCHANGED <<paths, dictionary_json, dicts, files, jpc, loaded, wpc, wrec, wres>>
    /\ UNCHANGED otherThanLoad

\* The exception leaves the "with ThreadPoolExecutor()" block: shutdown
\* waits for every submitted task, then the exception leaves __init__.
Unwind ==
    /\ pkgpc = "unwinding"
    /\ \A f \in FileIds : jpc[f] # "submitted" /\ (wpc[f] = "idle" \/ TaskOver(f))
    /\ pkgpc' = "failed"
    /\ UNCHANGED <<paths, dictionary_json, dicts, files, jpc, loaded, collected, wpc, wrec, wres,
                   training_set_images, pkgError>>
    /\ UNCHANGED otherThanLoad

NextLoad ==
    \/ CheckPaths
    \/ LoadDictionaries
    \/ SubmitLoadJson
    \/ \E f \in FileIds : LoadJson(f)
    \/ \E f \in FileIds : CollectFile(f)
    \/ SortAndSubmit
    \/ \E f \in FileIds : ReadFile(f)
    \/ \E f \in FileIds : CheckContains(f)
    \/ \E f \in FileIds : AddCheck(f)
    \/ \E f \in FileIds : AddAppend(f)
    \/ \E f \in FileIds : AddIndex(f)
    \/ \E f \in FileIds : CollectImage(f)
    \/ Unwind

SpecLoad == InitLoad /\ [][NextLoad]_vars

\* Package(...) has returned or raised.
LoadOver == pkgpc \in {"done", "failed"}

NoDuplicates(s) == \A i, j \in DOMAIN s : s[i] = s[j] => i = j

(***************************************************************************)
(* C2: when the concurrent load is over, each of the three Dictionaries    *)
(* has no duplicate label and inverted[label_list[i]] = i for every index  *)
(* i, under every interleaving of the read_file workers.                   *)
(***************************************************************************)
C2_DictionariesConsistent ==
    LoadOver =>
        \A d \in DOMAIN dicts :
            /\ NoDuplicates(dicts[d].label_list)
            /\ \A i \in DOMAIN dicts[d].label_list :
                  /\ contains(dicts[d], dicts[d].label_list[i])
                  /\ dicts[d].inverted[dicts[d].label_list[i]] = i - 1

(***************************************************************************)
(* C5: a read_file that met a region type absent from the region           *)
(* dictionary raised the unknown-label error naming that type, the type is *)
(* in the dictionary's label list from then on, and contains(type) is true *)
(* once the load is over; a read_file that returned an Image met no absent *)
(* label.                                                                  *)
(***************************************************************************)
C5_RegisteredAndRaised ==
    \A f \in FileIds :
        /\ (wpc[f] = "raised" /\ wres[f].type = "MuRETException"
              /\ CurrentRec(f).dict = "region_types") =>
              /\ wres[f].label = CurrentRec(f).label
              /\ wres[f].dict = "region_types"
              /\ CurrentRec(f).label \in Range(dicts["region_types"].label_list)
              /\ LoadOver => contains(dicts["region_types"], CurrentRec(f).label)
        /\ wpc[f] \in {"add", "append", "index"} =>
              ~ contains(DictionaryJsonDicts[CurrentRec(f).dict], CurrentRec(f).label)
        /\ wpc[f] = "returned" =>
              \A i \in DOMAIN files[f].recs :
                  contains(dicts[files[f].recs[i].dict], files[f].recs[i].label)

\* The load is over and a read_file raised for the region type "x", which
\* dictionary.json does not list.
C5_Witness ==
    /\ LoadOver
    /\ \E f \in FileIds :
          /\ wpc[f] = "raised"
          /\ wres[f].type = "MuRETException"
          /\ wres[f].dict = "region_types"
          /\ wres[f].label = "x"
          /\ ~ contains(DictionaryJsonDicts["region_types"], "x")

(***************************************************************************)
(* C6: when every file is well formed and a read_file met a label absent   *)
(* from its dictionary, Package construction still completes and           *)
(* training_set_images holds the Image of every file.                      *)
(***************************************************************************)
C6_UnknownLabelRecoverable ==
    (/\ LoadOver
     /\ \A f \in FileIds : files[f].kind = "ok"
     /\ \E f \in FileIds : wpc[f] = "raised" /\ wres[f].type = "MuRETException") =>
        /\ pkgpc = "done"
        /\ Range(training_set_images) = FileIds

(***************************************************************************)
(* C7: when dictionary.json is complete and one file is malformed JSON or  *)
(* lacks id, url or filename, the                                          *)
(* load still ends normally and training_set_images holds the Image of     *)
(* every other file whose labels are all in the dictionaries.              *)
(***************************************************************************)
C7_FileFailureIsolated ==
    (/\ LoadOver
     /\ MissingRoots = <<>>
     /\ \E f \in FileIds : files[f].kind \in {"malformed", "nokey"}) =>
        \A f \in FileIds :
            (/\ files[f].kind = "ok"
             /\ \A i \in DOMAIN files[f].recs :
                   contains(DictionaryJsonDicts[files[f].recs[i].dict],
                            files[f].recs[i].label))
            => (pkgpc = "done" /\ f \in Range(training_set_images))

(***************************************************************************)
(* MuRET2YOLO._load_images: one load_single_image task per image on a      *)
(* thread pool, each building a RemoteImage under one threading.Lock; the  *)
(* cache folder is always given (webui/procedures/importers).              *)
(***************************************************************************)
InitAcq ==
    /\ \E n \in 1..MaxImages : imgUrl \in [1..n -> Urls]
    /\ disk \in [Keys -> {"absent", "cached"}]
    /\ lock = 0
    /\ apc = [i \in DOMAIN imgUrl |-> "acquire"]
    /\ ares = [i \in DOMAIN imgUrl |-> NoValue]
    /\ fetches = [u \in Urls |-> 0]
    /\ writes = [k \in Keys |-> 0]
    /\ acollected = {}
    /\ original_images = <<>>
    /\ PartIdle
    /\ LoadIdle
    /\ RunIdle
    /\ DictIdle
    /\ BoxIdle

\* load_single_image without the lock (used to test C3).
Mut_LockAndCheck(i) ==
    /\ apc[i] = "acquire"
    /\ lock' = i
    /\ IF disk[get_local_filename(imgUrl[i])] = "absent"
       THEN /\ apc' = [apc EXCEPT ![i] = "fetch"]
            /\ UNCHANGED ares
       ELSE /\ apc' = [apc EXCEPT ![i] = "release"]
            /\ ares' = [ares EXCEPT ![i] = "image"]
    /\ UNCHANGED <<imgUrl, disk, fetches, writes, acollected, original_images>>
    /\ UNCHANGED otherThanAcq

\* lock.acquire(), then RemoteImage.__init__ up to
\* "if not os.path.exists(self.disk_file_name)".
LockAndCheck(i) ==
    /\ apc[i] = "acquire"
    /\ lock = 0
    /\ lock' = i
    /\ IF disk[get_local_filename(imgUrl[i])] = "absent"
       THEN /\ apc' = [apc EXCEPT ![i] = "fetch"]
            /\ UNCHANGED ares
       ELSE /\ apc' = [apc EXCEPT ![i] = "release"]
            /\ ares' = [ares EXCEPT ![i] = "image"]
    /\ UNCHANGED <<imgUrl, disk, fetches, writes, acollected, original_images>>
    /\ UNCHANGED otherThanAcq

\* A download that leaves a file behind when it fails.
Mut_Fetch(i) ==
    /\ apc[i] = "fetch"
    /\ fetches' = [fetches EXCEPT ![imgUrl[i]] = @ + 1]
    /\ \E content \in {"bytes", NoValue} :
          IF content # NoValue
          THEN /\ apc' = [apc EXCEPT ![i] = "write"]
               /\ UNCHANGED <<ares, disk>>
          ELSE /\ apc' = [apc EXCEPT ![i] = "release"]
               /\ ares' = [ares EXCEPT ![i] = "error"]
               /\ disk' = [disk EXCEPT ![get_local_filename(imgUrl[i])] = "written"]
    /\ UNCHANGED <<imgUrl, lock, writes, acollected, original_images>>
    /\ UNCHANGED otherThanAcq

\* RemoteImage.__download_url_image: urlopen and read.  It returns the
\* content, or logs the error and returns None, and __init__ then raises.
Fetch(i) ==
    /\ apc[i] = "fetch"
    /\ fetches' = [fetches EXCEPT ![imgUrl[i]] = @ + 1]
    /\ \E content \in {"bytes", NoValue} :
          IF content # NoValue
          THEN /\ apc' = [apc EXCEPT ![i] = "write"]
               /\ UNCHANGED ares
          ELSE /\ apc' = [apc EXCEPT ![i] = "release"]
               /\ ares' = [ares EXCEPT ![i] = "error"]
    /\ UNCHANGED <<imgUrl, disk, lock, writes, acollected, original_images>>
    /\ UNCHANGED otherThanAcq

\* RemoteImage.__init__: open(self.disk_file_name, 'wb') and f.write(content)
Write(i) ==
    /\ apc[i] = "write"
    /\ disk' = [disk EXCEPT ![get_local_filename(imgUrl[i])] = "written"]
    /\ writes' = [writes EXCEPT ![get_local_filename(imgUrl[i])] = @ + 1]
    /\ apc' = [apc EXCEPT ![i] = "release"]
    /\ ares' = [ares EXCEPT ![i] = "image"]
    /\ UNCHANGED <<imgUrl, lock, fetches, acollected, original_images>>
    /\ UNCHANGED otherThanAcq

\* load_single_image without its try/finally: the lock is released only
\* when RemoteImage.__init__ returned.
Mut_Release(i) ==
    /\ apc[i] = "release"
    /\ lock' = IF ares[i] = "error" THEN lock ELSE 0
    /\ apc' = [apc EXCEPT ![i] = "done"]
    /\ UNCHANGED <<imgUrl, disk, ares, fetches, writes, acollected, original_images>>
    /\ UNCHANGED otherThanAcq

\* load_single_image: "finally: lock.release()", and the task ends.
Release(i) ==
    /\ apc[i] = "release"
    /\ lock' = 0
    /\ apc' = [apc EXCEPT ![i] = "done"]
    /\ UNCHANGED <<imgUrl, disk, ares, fetches, writes, acollected, original_images>>
    /\ UNCHANGED otherThanAcq

Mut_CollectAcquired(i) ==
    /\ apc[i] = "done"
    /\ i \notin acollected
    /\ acollected' = acollected \cup {i}
    /\ original_images' = Append(original_images, i)
    /\ UNCHANGED <<imgUrl, disk, lock, apc, ares, fetches, writes>>
    /\ UNCHANGED otherThanAcq

\* _load_images: one turn of "for future in as_completed(futures)".
CollectAcquired(i) ==
    /\ apc[i] = "done"
    /\ i \notin acollected
    /\ acollected' = acollected \cup {i}
    /\ original_images' = IF ares[i] = "image" THEN Append(original_images, i)
                          ELSE original_images
    /\ UNCHANGED <<imgUrl, disk, lock, apc, ares, fetches, writes>>
    /\ UNCHANGED otherThanAcq

NextAcq ==
    \/ \E i \in ImageIds : LockAndCheck(i)
    \/ \E i \in ImageIds : Fetch(i)
    \/ \E i \in ImageIds : Write(i)
    \/ \E i \in ImageIds : Release(i)
    \/ \E i \in ImageIds : CollectAcquired(i)

SpecAcq == InitAcq /\ [][NextAcq]_vars

\* Fair scheduling: a pool thread that can take a step takes one, the lock
\* is handed to one of the threads waiting for it, and the main thread goes
\* on collecting.  urlopen has a timeout, so a fetch returns.
SpecAcqFair ==
    /\ SpecAcq
    /\ WF_vars(\E i \in ImageIds : LockAndCheck(i))
    /\ WF_vars(\E i \in ImageIds : Fetch(i))
    /\ WF_vars(\E i \in ImageIds : Write(i))
    /\ WF_vars(\E i \in ImageIds : Release(i))
    /\ WF_vars(\E i \in ImageIds : CollectAcquired(i))

\* _load_images has returned.
AcqOver == acollected = ImageIds

\* No fetch of url u has failed.
FetchSucceeds(u) == \A i \in ImageIds : imgUrl[i] = u => ares[i] # "error"

(***************************************************************************)
(* C3: for a url whose fetch does not fail, all the acquisition requests   *)
(* of a run, however many and however interleaved, make at most one        *)
(* network fetch and one cache-file write; when the run is over they made  *)
(* exactly one of each if the file was not cached before and none if it    *)
(* was.                                                                    *)
(***************************************************************************)
C3_OneFetchPerUrl ==
    \A u \in Urls :
        FetchSucceeds(u) =>
            /\ fetches[u] <= 1
            /\ writes[get_local_filename(u)] <= 1
            /\ disk[get_local_filename(u)] = "cached" =>
                  fetches[u] = 0 /\ writes[get_local_filename(u)] = 0
            /\ (AcqOver /\ \E i \in ImageIds : imgUrl[i] = u) =>
                  /\ disk[get_local_filename(u)] # "absent"
                  /\ disk[get_local_filename(u)] = "written" =>
                        fetches[u] = 1 /\ writes[get_local_filename(u)] = 1

\* Three requests for one url that was not cached: all three returned an
\* image after one fetch and one write.
C3_Witness ==
    /\ AcqOver
    /\ \E u \in Urls :
          /\ Cardinality({i \in ImageIds : imgUrl[i] = u}) >= 3
          /\ \A i \in ImageIds : imgUrl[i] = u => ares[i] = "image"
          /\ disk[get_local_filename(u)] = "written"
          /\ fetches[u] = 1
          /\ writes[get_local_filename(u)] = 1

(***************************************************************************)
(* C4: a task never waits at the lock while the holder of the lock is      *)
(* acquiring an image of a different cache key.                            *)
(***************************************************************************)
C4_NoWaitAcrossKeys ==
    \A i, j \in ImageIds :
        (apc[i] = "acquire" /\ lock = j /\ apc[j] \in {"fetch", "write"}) =>
            get_local_filename(imgUrl[i]) = get_local_filename(imgUrl[j])

\* What the code does instead: no two fetches are ever in progress together.
AcquisitionsSerialized ==
    \A i, j \in ImageIds :
        (apc[i] \in {"fetch", "write"} /\ apc[j] \in {"fetch", "write"}) => i = j


(***************************************************************************)
(* A run of MuRET2YOLO: MuRET2YOLO(...) and then __call__(output_folder).   *)
(***************************************************************************)
\* What a run never touches.
runOthers == <<dataset, ppc, files, jpc, loaded, collected, wpc, wrec, wres,
               pkgpc, pkgError, paths, dictionary_json, disk, lock, apc, ares, fetches, writes, acollected,
               dictVars, boxVars>>

\* What the caller passes and the run only reads.
runInputs == <<mode, resize, json, splits, imgUrl, dicts>>

OutFile(folder, split, name) == [folder |-> folder, split |-> split, name |-> name]

InitRun ==
    /\ mode \in ObjectsToDetectKind
    /\ resize \in ResizeValues
    /\ splits \in RunSplits
    /\ \E n \in 1..MaxRunImages :
          /\ json \in [1..n -> JsonPages]
          /\ imgUrl \in [1..n -> Urls]
          /\ imgUrl[1] = "u1"
    /\ dicts \in RunDictionaries
    /\ graph = <<>>
    /\ training_set_images = <<>>
    /\ original_images = <<>>
    /\ folders = FALSE
    /\ manifest = <<>>
    /\ generated = <<>>
    /\ gcollected = {}
    /\ yolo_images = <<>>
    /\ partitions = NoValue
    /\ split_at = 0
    /\ saved = {}
    /\ outputs = {}
    /\ runpc = "init"
    /\ runError = NoValue
    /\ dataset = <<>> /\ ppc = "idle"
    /\ files = <<>> /\ jpc = <<>> /\ loaded = <<>> /\ collected = {}
    /\ wpc = <<>> /\ wrec = <<>> /\ wres = <<>>
    /\ pkgpc = "idle" /\ pkgError = NoValue /\ paths = {} /\ dictionary_json = <<>>
    /\ disk = <<>> /\ lock = 0 /\ apc = <<>> /\ ares = <<>>
    /\ fetches = <<>> /\ writes = <<>> /\ acollected = {}
    /\ DictIdle
    /\ BoxIdle

\* __init__: self.training_package = Package(folder).  Every file is read
\* into its Pages and Regions; the Images are listed as their tasks finish.
NewPackage ==
    /\ runpc = "init"
    /\ graph' = [i \in DOMAIN json |-> BuildPages(json[i])]
    /\ \E order \in Arrangements(DOMAIN json) :
          /\ Len(order) = Len(json)
          /\ training_set_images' = order
    /\ runpc' = "load_images"
    /\ UNCHANGED <<folders, manifest, generated, gcollected, yolo_images,
                   split_at, saved, outputs, runError, partitions, original_images>>
    /\ UNCHANGED <<runInputs, runOthers>>

\* __init__: self.original_images = self._load_images(cache_folder), then
\* the resize, object kind and splits checks, none of which reads the sum.
\* An image whose acquisition fails is left out.
load_images ==
    /\ runpc = "load_images"
    /\ original_images' \in Arrangements(Range(training_set_images))
    /\ runpc' = "constructed"
    /\ UNCHANGED <<graph, folders, manifest, generated, gcollected, yolo_images,
                   split_at, saved, outputs, runError, partitions, training_set_images>>
    /\ UNCHANGED <<runInputs, runOthers>>

Mut_create_output_structure ==
    /\ runpc = "constructed"
    /\ folders' = folders
    /\ runpc' = "transcode"
    /\ UNCHANGED <<graph, manifest, generated, gcollected, yolo_images,
                   split_at, saved, outputs, runError, partitions,
                   training_set_images, original_images>>
    /\ UNCHANGED <<runInputs, runOthers>>

\* __call__: self._create_output_structure(output_folder)
create_output_structure ==
    /\ runpc = "constructed"
    /\ folders' = TRUE
    /\ runpc' = "transcode"
    /\ UNCHANGED <<graph, manifest, generated, gcollected, yolo_images,
                   split_at, saved, outputs, runError, partitions,
                   training_set_images, original_images>>
    /\ UNCHANGED <<runInputs, runOthers>>

\* __call__: self.transcode(output_folder)
transcode ==
    /\ runpc = "transcode"
    /\ manifest' = generate_dataYAML
    /\ outputs' = outputs \cup {OutFile("", "", "dataset.yaml"),
                                OutFile("muret_dicts", "", "i2w.json"),
                                OutFile("muret_dicts", "", "w2i.json")}
    /\ runpc' = "generate"
    /\ UNCHANGED <<graph, folders, generated, gcollected, yolo_images,
                   split_at, saved, runError, partitions,
                   training_set_images, original_images>>
    /\ UNCHANGED <<runInputs, runOthers>>

\* Whether __generate_full_image reaches ImageYOLO(...) for these pages.
ReachesImageYOLO(pages) ==
    /\ isRegionsTranscode
    /\ ~index_of_raises(dicts["region_types"], "page")
    /\ \A k \in DOMAIN SourceLabels(pages) :
          ~index_of_raises(dicts["region_types"], SourceLabels(pages)[k])

\* _generate_full_images: the single worker runs __generate_full_image on
\* the next image.  Outside REGIONS mode self.object_kind does not exist,
\* the AttributeError is caught and the task returns None.
generate_full_image ==
    /\ runpc = "generate"
    /\ ~isStaffWise
    /\ Len(generated) < Len(original_images)
    /\ LET i == original_images[Len(generated) + 1]
       IN  IF ReachesImageYOLO(graph[i])
           THEN /\ generated' = Append(generated, <<ImageYOLO(i, objects_to_detect(graph[i]))>>)
                /\ graph' = [graph EXCEPT ![i] = PagesAfterPreprocess(@)]
           ELSE /\ generated' = Append(generated, <<>>)
                /\ graph' = graph
    /\ UNCHANGED <<folders, manifest, gcollected, yolo_images, split_at, saved,
                   outputs, runpc, runError, partitions,
                   training_set_images, original_images>>
    /\ UNCHANGED <<runInputs, runOthers>>

\* _generate_full_images: as_completed hands over a finished task.
CollectFullImage(k) ==
    /\ runpc = "generate"
    /\ ~isStaffWise
    /\ k \in DOMAIN generated
    /\ k \notin gcollected
    /\ gcollected' = gcollected \cup {k}
    /\ yolo_images' = yolo_images \o generated[k]
    /\ UNCHANGED <<graph, folders, manifest, generated, split_at, saved,
                   outputs, runpc, runError, partitions,
                   training_set_images, original_images>>
    /\ UNCHANGED <<runInputs, runOthers>>

\* _generate_full_images returns; or _generate_images_from_staves returns []
\* because there is no original image.
generate_images_return ==
    /\ runpc = "generate"
    /\ IF isStaffWise THEN original_images = <<>>
       ELSE gcollected = DOMAIN original_images
    /\ runpc' = "save"
    /\ UNCHANGED <<graph, folders, manifest, generated, gcollected, yolo_images,
                   split_at, saved, outputs, runError, partitions,
                   training_set_images, original_images>>
    /\ UNCHANGED <<runInputs, runOthers>>

\* _generate_images_from_staves: original_image.muret_image does not exist.
generate_images_from_staves_raise ==
    /\ runpc = "generate"
    /\ isStaffWise
    /\ original_images # <<>>
    /\ runpc' = "failed"
    /\ runError' = "AttributeError"
    /\ UNCHANGED <<graph, folders, manifest, generated, gcollected, yolo_images,
                   split_at, saved, outputs, partitions,
                   training_set_images, original_images>>
    /\ UNCHANGED <<runInputs, runOthers>>

\* _save_files: PartitionManager.partition(images, self.splits) raises.
save_files_raise ==
    /\ runpc = "save"
    /\ sum_split(splits) # 100
    /\ runpc' = "failed"
    /\ runError' = "MuRETException"
    /\ UNCHANGED <<graph, folders, manifest, generated, gcollected, yolo_images,
                   split_at, saved, outputs, partitions,
                   training_set_images, original_images>>
    /\ UNCHANGED <<runInputs, runOthers>>

\* _save_files: PartitionManager.partition(images, self.splits) returns.
save_files_partition ==
    /\ runpc = "save"
    /\ sum_split(splits) = 100
    /\ partitions' = partition(yolo_images, splits)
    /\ split_at' = 1
    /\ runpc' = "saving"
    /\ UNCHANGED <<graph, folders, manifest, generated, gcollected, yolo_images,
                   saved, outputs, runError, training_set_images, original_images>>
    /\ UNCHANGED <<runInputs, runOthers>>

\* The positions of yolo_images that fall in a split.
SplitPositions(kind) ==
    {k \in DOMAIN yolo_images :
        \E j \in DOMAIN partitions[kind] : partitions[kind][j] = yolo_images[k]}

\* __save_image: one task of the pool of the split being written.
save_image(k) ==
    /\ runpc = "saving"
    /\ k \in SplitPositions(SplitNames[split_at])
    /\ k \notin saved
    /\ saved' = saved \cup {k}
    /\ outputs' = outputs \cup
          {OutFile("images", SplitNames[split_at], yolo_images[k].file_name),
           OutFile("labels", SplitNames[split_at], yolo_images[k].file_name)}
    /\ UNCHANGED <<graph, folders, manifest, generated, gcollected, yolo_images,
                   split_at, runpc, runError, partitions,
                   training_set_images, original_images>>
    /\ UNCHANGED <<runInputs, runOthers>>

\* _save_files: the pool of a split is left once its tasks are over; after
\* the last split __call__ returns.
NextSplit ==
    /\ runpc = "saving"
    /\ SplitPositions(SplitNames[split_at]) \subseteq saved
    /\ IF split_at < Len(SplitNames)
       THEN split_at' = split_at + 1 /\ runpc' = runpc
       ELSE split_at' = split_at /\ runpc' = "done"
    /\ UNCHANGED <<graph, folders, manifest, generated, gcollected, yolo_images,
                   saved, outputs, runError, partitions,
                   training_set_images, original_images>>
    /\ UNCHANGED <<runInputs, runOthers>>

NextRun ==
    \/ NewPackage
    \/ load_images
    \/ create_output_structure
    \/ transcode
    \/ generate_full_image
    \/ \E k \in DOMAIN generated : CollectFullImage(k)
    \/ generate_images_return
    \/ generate_images_from_staves_raise
    \/ save_files_raise
    \/ save_files_partition
    \/ \E k \in DOMAIN yolo_images : save_image(k)
    \/ NextSplit

SpecRun == InitRun /\ [][NextRun]_vars

RunTypeOK ==
    /\ runpc \in {"init", "load_images", "constructed", "transcode", "generate",
                  "save", "saving", "done", "failed"}
    /\ \A k \in DOMAIN yolo_images : <<yolo_images[k]>> \in Range(generated)

(***************************************************************************)
(* C8: the dictionary exported in the dataset manifest is the dictionary   *)
(* the class indices of the label lines are taken from: every class index  *)
(* of a generated label line is a key of the manifest, and the manifest    *)
(* maps it to the type label of the page or region the line was derived    *)
(* from.                                                                   *)
(***************************************************************************)
C8_ManifestBacksLabelLines ==
    \A k \in DOMAIN yolo_images :
        \A o \in DOMAIN yolo_images[k].objects :
            /\ yolo_images[k].objects[o].label \in DOMAIN manifest
            /\ manifest[yolo_images[k].objects[o].label]
                  = SourceLabels(graph[yolo_images[k].image])[o]

(***************************************************************************)
(* C9: a run that fails for split fractions whose sum is not 1.0 fails     *)
(* before work begins: when the sum check has raised, no package task has  *)
(* run, no image has been acquired, and no folder or file has been written *)
(* under the output folder.                                                *)
(***************************************************************************)
C9_InvalidSplitsFailBeforeWork ==
    runError = "MuRETException" =>
        /\ training_set_images = <<>>
        /\ original_images = <<>>
        /\ ~folders
        /\ outputs = {}

(***************************************************************************)
(* C10: the graph is read-only after load: at every point of the run after *)
(* the package was loaded, every bounding box of every Page and Region has *)
(* the four coordinates and the format tag it was loaded with.             *)
(***************************************************************************)
C10_GraphReadOnlyAfterLoad ==
    runpc # "init" => graph = [i \in DOMAIN json |-> BuildPages(json[i])]

(***************************************************************************)
(* One Dictionary: Dictionary(label_list), then calls of add, one caller.  *)
(***************************************************************************)
InitDict ==
    /\ \E label_list \in UNION {[1..n -> Labels] : n \in 0..2} :
          /\ dictionary = Dictionary(label_list)
          /\ added = label_list
    /\ lookup = <<>>
    /\ PartIdle
    /\ LoadIdle
    /\ AcqIdle
    /\ RunIdle
    /\ BoxIdle

\* dictionary.add(label)
DictAdd(l) ==
    /\ Len(added) < MaxCalls
    /\ dictionary' = add(dictionary, l)
    /\ added' = Append(added, l)
    /\ UNCHANGED lookup
    /\ UNCHANGED otherThanDict

\* Indexes the caller may hand to label: below, inside and past the list.
Indexes == (0 - 1)..MaxCalls

\* A get-or-add lookup: an absent label is appended and its index returned.
Mut_DictIndexOf(l) ==
    /\ dictionary' = add(dictionary, l)
    /\ lookup' = <<[op |-> "index_of", label |-> <<l>>, raised |-> FALSE,
                    index |-> <<index_of(add(dictionary, l), l)>>]>>
    /\ UNCHANGED added
    /\ UNCHANGED otherThanDict

\* dictionary.index_of(label): an exception or the index; no field is written.
DictIndexOf(l) ==
    /\ lookup' = <<[op |-> "index_of", label |-> <<l>>,
                    raised |-> index_of_raises(dictionary, l),
                    index |-> IF index_of_raises(dictionary, l) THEN <<>>
                              ELSE <<index_of(dictionary, l)>>]>>
    /\ UNCHANGED <<dictionary, added>>
    /\ UNCHANGED otherThanDict

\* dictionary.label(index): an exception or the label; no field is written.
DictLabel(i) ==
    /\ lookup' = <<[op |-> "label", index |-> <<i>>,
                    raised |-> Dictionary_label_raises(dictionary, i),
                    label |-> IF Dictionary_label_raises(dictionary, i) THEN <<>>
                              ELSE <<Dictionary_label(dictionary, i)>>]>>
    /\ UNCHANGED <<dictionary, added>>
    /\ UNCHANGED otherThanDict

NextDict ==
    \/ \E l \in Labels : DictAdd(l)
    \/ \E l \in Labels : DictIndexOf(l)
    \/ \E i \in Indexes : DictLabel(i)

SpecDict == InitDict /\ [][NextDict]_vars

(***************************************************************************)
(* C11: for every label L that was added, index_of(L) and                  *)
(* label(index_of(L)) do not raise, label(index_of(L)) = L and             *)
(* index_of(label(index_of(L))) = index_of(L); and for every i in          *)
(* 0..size()-1, index_of(label(i)) = i.                                    *)
(***************************************************************************)
C11_IndexLabelRoundTrip ==
    /\ \A L \in Range(added) :
          /\ ~index_of_raises(dictionary, L)
          /\ ~Dictionary_label_raises(dictionary, index_of(dictionary, L))
          /\ Dictionary_label(dictionary, index_of(dictionary, L)) = L
          /\ index_of(dictionary, Dictionary_label(dictionary, index_of(dictionary, L)))
                = index_of(dictionary, L)
    /\ \A i \in 0..(size(dictionary) - 1) :
          /\ ~Dictionary_label_raises(dictionary, i)
          /\ ~index_of_raises(dictionary, Dictionary_label(dictionary, i))
          /\ index_of(dictionary, Dictionary_label(dictionary, i)) = i

\* A label was added twice and another label after it.
C11_Witness ==
    /\ Len(added) >= 3
    /\ \E i, j \in DOMAIN added : i < j /\ added[i] = added[j]
    /\ size(dictionary) >= 2
    /\ index_of(dictionary, Dictionary_label(dictionary, 1)) = 1

(***************************************************************************)
(* C12: after any sequence of add calls the label list is the distinct     *)
(* labels given so far in order of first occurrence and label i has index  *)
(* i (0..N-1, no gaps); a call of add with a label already present changes *)
(* nothing; and a call of add never removes a label nor changes the index  *)
(* of a label that has one.                                                *)
(***************************************************************************)
C12_FirstSeenOrder ==
    /\ [](LET FirstSeen[k \in 0..Len(added)] ==
                  IF k = 0 THEN <<>>
                  ELSE IF \E j \in 1..(k - 1) : added[j] = added[k]
                       THEN FirstSeen[k - 1]
                       ELSE Append(FirstSeen[k - 1], added[k])
          IN  /\ dictionary.label_list = FirstSeen[Len(added)]
              /\ DOMAIN dictionary.inverted = Range(dictionary.label_list)
              /\ \A i \in DOMAIN dictionary.label_list :
                    dictionary.inverted[dictionary.label_list[i]] = i - 1)
    /\ [][/\ added' # added /\ added'[Len(added')] \in Range(dictionary.label_list)
                => dictionary' = dictionary
          /\ \A l \in DOMAIN dictionary.inverted :
                /\ l \in DOMAIN dictionary'.inverted
                /\ dictionary'.inverted[l] = dictionary.inverted[l]
          /\ SubSeq(dictionary'.label_list, 1, Len(dictionary.label_list))
                = dictionary.label_list]_vars

\* A present label was given again after a new label had been appended.
C12_Witness ==
    /\ Len(added) = MaxCalls
    /\ added[Len(added)] \in Range(SubSeq(added, 1, Len(added) - 1))
    /\ added[Len(added) - 1] \notin Range(SubSeq(added, 1, Len(added) - 2))
    /\ size(dictionary) = Len(added) - 1

(***************************************************************************)
(* C13: when dictionary.json lacks the root element agnostic_symbol_types, *)
(* the load fails with that MuRETException, and at no point of the load    *)
(* has a file under files/ been enumerated, opened or parsed, nor a worker *)
(* been started.                                                           *)
(***************************************************************************)
C13_DictionaryCheckedBeforeFiles ==
    "dictionary.json" \in paths /\ "agnostic_symbol_types" \notin DOMAIN dictionary_json =>
        /\ pkgpc \in {"start", "init", "failed"}
        /\ \A f \in FileIds : jpc[f] = "unsubmitted" /\ wpc[f] = "idle"
        /\ loaded = <<>>
        /\ training_set_images = <<>>
        /\ pkgpc = "failed" =>
              /\ pkgError.type = "MuRETException"
              /\ pkgError.dict = "agnostic_symbol_types"

\* The load of a package with files has failed on the absent root element.
C13_Witness ==
    /\ "agnostic_symbol_types" \notin DOMAIN dictionary_json
    /\ pkgpc = "failed"
    /\ Len(files) = MaxFiles
    /\ DOMAIN dicts = {"region_types"}

(***************************************************************************)
(* C14: whenever the discovery phase has returned its list, the list is    *)
(* ordered by (relative folder path, base name), every parse task has      *)
(* completed, and the list holds exactly one entry per .json file, for     *)
(* every completion order of the parse tasks.                              *)
(***************************************************************************)
C14_DiscoverySorted ==
    (\E f \in FileIds : wpc[f] # "idle") =>
        /\ \A i, j \in DOMAIN loaded :
              i < j => KeyLess(FileKey(loaded[i]), FileKey(loaded[j]))
        /\ \A f \in FileIds : jpc[f] = "parsed"
        /\ Range(loaded) = FileIds
        /\ Len(loaded) = Cardinality(FileIds)

\* The list was returned with two files whose sorted order is not the
\* order of their submission.
C14_Witness ==
    /\ pkgpc = "read_files"
    /\ Len(loaded) >= 2
    /\ loaded[1] > loaded[2]

(***************************************************************************)
(* C15: a failed fetch of one image is isolated to that image: its task    *)
(* releases the lock, so the other tasks go on; the failed image is never  *)
(* put in the result; every image acquired and collected is in the result  *)
(* once; and when _load_images returns, the result holds exactly the       *)
(* images whose acquisition succeeded.                                     *)
(***************************************************************************)
C15_FetchFailureIsolated ==
    /\ \A i \in ImageIds :
          /\ (ares[i] = "error" /\ apc[i] = "done") => lock # i
          /\ ares[i] = "error" => i \notin Range(original_images)
          /\ (ares[i] = "image" /\ i \in acollected) => i \in Range(original_images)
    /\ NoDuplicates(original_images)
    /\ AcqOver => Range(original_images) = {i \in ImageIds : ares[i] = "image"}

\* _load_images has returned after a fetch failed for one image and another
\* image was fetched and written to the cache.
C15_Witness ==
    /\ AcqOver
    /\ \E i, j \in ImageIds :
          /\ ares[i] = "error"
          /\ ares[j] = "image"
          /\ disk[get_local_filename(imgUrl[j])] = "written"
          /\ original_images # <<>>
          /\ i \notin Range(original_images)

(***************************************************************************)
(* C16: a run goes through its stages in the order create_output_layout,   *)
(* transcode, generate_detection_images, partition, write_outputs, each    *)
(* starting when the previous one is over: the manifest and the dictionary *)
(* files are written only once the split folders exist; an image is        *)
(* generated only once they are written; the partition is computed only    *)
(* once every generation task was collected; and a pixel or label file is  *)
(* written only once the folders exist and the partition is computed, in   *)
(* the folder of the split the partition gave its image.                   *)
(***************************************************************************)
C16_StagesInOrder ==
    /\ [](/\ outputs # {} => folders
          /\ generated # <<>> =>
                {OutFile("", "", "dataset.yaml"),
                 OutFile("muret_dicts", "", "i2w.json"),
                 OutFile("muret_dicts", "", "w2i.json")} \subseteq outputs
          /\ split_at >= 1 =>
                /\ Len(generated) = Len(original_images) \/ isStaffWise
                /\ gcollected = DOMAIN generated
          /\ \A o \in outputs :
                o.folder \in {"images", "labels"} =>
                    /\ folders
                    /\ split_at >= 1
                    /\ \E j \in DOMAIN partitions[o.split] :
                          partitions[o.split][j].file_name = o.name)
    /\ [][runpc' # runpc =>
            <<runpc, runpc'>> \in
                {<<"init", "load_images">>, <<"load_images", "constructed">>,
                 <<"constructed", "transcode">>, <<"transcode", "generate">>,
                 <<"generate", "save">>, <<"save", "saving">>,
                 <<"saving", "done">>,
                 <<"generate", "failed">>, <<"save", "failed">>}]_vars

\* A run is over that wrote the files of two images in two splits.
C16_Witness ==
    /\ runpc = "done"
    /\ \E o1, o2 \in outputs :
          /\ o1.folder = "images"
          /\ o2.folder = "labels"
          /\ o1.split = "train"
          /\ o2.split = "test"

(***************************************************************************)
(* C17: in REGIONS mode without resizing, with "page" in the region        *)
(* dictionary, an acquired image of 100x200 pixels whose file has one page *)
(* with box (0,0,100,200) and one region of type "staff" with box          *)
(* (10,10,90,190) is generated with two objects, the second of which has   *)
(* the class index of "staff" in the region dictionary and the yolo values *)
(* x_center 0.5, y_center 0.5, width 0.8, height 0.9; and when the run is  *)
(* over its label file is written.                                         *)
(***************************************************************************)
C17_EndToEndStaffRegion ==
    LET Example(pages) ==
            /\ Len(pages) = 1
            /\ pages[1].bounding_box = MuretBox(0, 0, 100, 200)
            /\ Len(pages[1].regions) = 1
            /\ pages[1].regions[1].type = "staff"
            /\ pages[1].regions[1].bounding_box = MuretBox(10, 10, 90, 190)
    IN  (/\ mode = "REGIONS"
         /\ resize < 128
         /\ contains(dicts["region_types"], "page")) =>
            /\ \A k \in DOMAIN generated :
                  Example(json[original_images[k]]) =>
                      /\ generated[k] # <<>>
                      /\ generated[k][1].image = original_images[k]
                      /\ Len(generated[k][1].objects) = 2
                      /\ generated[k][1].objects[2] =
                            Object(index_of(dicts["region_types"], "staff"),
                                   BoundingBox(Unit \div 2, Unit \div 2,
                                               (8 * Unit) \div 10, (9 * Unit) \div 10,
                                               "yolo"))
            /\ runpc = "done" =>
                  \A i \in Range(original_images) :
                      Example(json[i]) =>
                          \E o \in outputs :
                              /\ o.folder = "labels"
                              /\ o.name = get_local_filename(imgUrl[i])

\* The run of a package with that one image is over and its files are
\* written.
C17_Witness ==
    /\ mode = "REGIONS"
    /\ resize < 128
    /\ runpc = "done"
    /\ Len(json) = 1
    /\ Len(json[1][1].regions) = 1
    /\ Len(yolo_images) = 1
    /\ yolo_images[1].objects[2].label = 1
    /\ yolo_images[1].objects[2].bounding_box.c = (8 * Unit) \div 10
    /\ Cardinality(outputs) = 5

(***************************************************************************)
(* C18: when a run is over, the output holds one label file and one pixel  *)
(* file per retained image: the label files of the three splits are as     *)
(* many as the retained images, and so are the pixel files, so that no two *)
(* retained images share an output file.                                   *)
(***************************************************************************)
C18_OneFilePerRetainedImage ==
    runpc = "done" =>
        /\ Cardinality({o \in outputs : o.folder = "labels"}) = Len(yolo_images)
        /\ Cardinality({o \in outputs : o.folder = "images"}) = Len(yolo_images)

(***************************************************************************)
(* C19: a dictionary lookup failure while detection targets are derived is *)
(* fatal for the run: a run in REGIONS mode whose region dictionary has no *)
(* label "page" and that acquired an image does not complete.              *)
(***************************************************************************)
C19_LookupFailureFatal ==
    (/\ mode = "REGIONS"
     /\ index_of_raises(dicts["region_types"], "page")
     /\ original_images # <<>>) =>
        runpc # "done"

(***************************************************************************)
(* C20: in the two symbol modes the generation stage completes and emits   *)
(* symbol detections: in SYMBOLS_IN_REGIONS it does not raise, and in      *)
(* SYMBOLS_IN_IMAGES, once it is over, there is one entry per acquired     *)
(* image, with one detection object per symbol of the image's regions.     *)
(***************************************************************************)
C20_SymbolModesEmit ==
    /\ mode = "SYMBOLS_IN_REGIONS" => runError # "AttributeError"
    /\ (mode = "SYMBOLS_IN_IMAGES" /\ runpc \in {"save", "saving", "done"}) =>
          /\ Len(yolo_images) = Len(original_images)
          /\ \A k \in DOMAIN yolo_images :
                Len(yolo_images[k].objects) =
                    Len(Flatten([p \in DOMAIN graph[yolo_images[k].image] |->
                        Flatten([r \in DOMAIN graph[yolo_images[k].image][p].regions |->
                            graph[yolo_images[k].image][p].regions[r].symbols])]))

(***************************************************************************)
(* C21: whenever partition returns, train has floor(N * train) items,      *)
(* validation has floor(N * validation) items and test has the rest, N the *)
(* length of the input and the fractions the decimal values handed in: 100 *)
(* items with (0.7, 0.2, 0.1) are split 70/20/10.                          *)
(***************************************************************************)
C21_SplitSizes ==
    ppc = "returned" =>
        LET N == Len(dataset)
            n_train == (N * splits.train) \div 1000
            n_validation == (N * splits.validation) \div 1000
        IN  /\ Len(partitions.train) = n_train
            /\ Len(partitions.validation) = n_validation
            /\ Len(partitions.test) = N - n_train - n_validation

(***************************************************************************)
(* C22: partition rejects every triple of fractions whose sum, rounded to  *)
(* two decimals, is not 1.0 (0.99 and 1.01 are rejected): it raises and    *)
(* returns no split.  A sum that rounds to 1.00 (0.996, 1.004) is accepted *)
(* and a split is returned.                                                *)
(***************************************************************************)
C22_SumChecked ==
    LET total == splits.train + splits.validation + splits.test
    IN  /\ ppc = "raised" => (total < 995 \/ total > 1005) /\ partitions = NoValue
        /\ ppc = "returned" =>
              /\ 995 < total /\ total < 1005
              /\ DOMAIN partitions = {"train", "validation", "test"}

\* partition has raised for fractions that sum to 0.99.
C22_Witness ==
    /\ ppc = "raised"
    /\ splits.train + splits.validation + splits.test = 990
    /\ partitions = NoValue
    /\ Len(dataset) > 0

(***************************************************************************)
(* C23: index_of(label) raises for every label that was never added, and   *)
(* label(index) raises for every index < 0 and every index >= size(); a    *)
(* lookup that raises returns nothing, and the label list and the inverted *)
(* map are after it what they were before it.                              *)
(***************************************************************************)
C23_LookupMisuseRaises ==
    [][lookup' # lookup =>
          LET call == lookup'[1]
          IN  /\ call.op = "index_of" /\ call.label[1] \notin Range(added)
                    => call.raised
              /\ call.op = "label"
                    /\ (call.index[1] < 0 \/ call.index[1] >= size(dictionary))
                    => call.raised
              /\ call.raised =>
                    /\ dictionary' = dictionary
                    /\ IF call.op = "index_of" THEN call.index = <<>>
                                               ELSE call.label = <<>>]_vars

\* A non-empty dictionary was asked for the label at index size().
C23_Witness ==
    /\ Len(lookup) = 1
    /\ lookup[1].op = "label"
    /\ lookup[1].raised
    /\ lookup[1].index[1] = size(dictionary)
    /\ size(dictionary) >= 2

(***************************************************************************)
(* C24: the load of a package whose folder does not exist, or whose folder *)
(* has no dictionary.json, fails with IOError; the load of a package whose *)
(* files/ folder exists and holds no .json file fails with the             *)
(* MuRETException of the empty package.  In each case the load never       *)
(* completes, no read_file task is started and no Image is built.          *)
(***************************************************************************)
C24_MissingInputsFail ==
    LET NoGraph == /\ training_set_images = <<>>
                   /\ \A f \in FileIds : wpc[f] = "idle" /\ wres[f] = NoValue
    IN  /\ "folder" \notin paths \/ "dictionary.json" \notin paths =>
              /\ pkgpc \in {"start", "failed"}
              /\ pkgpc = "failed" => pkgError.type = "IOError"
              /\ dicts = <<>>
              /\ NoGraph
        /\ paths = {"folder", "dictionary.json", "files"}
              /\ MissingRoots = <<>> /\ files = <<>> =>
              /\ pkgpc # "done"
              /\ pkgpc = "failed" => pkgError = EmptyPackage
              /\ NoGraph

\* The load of a folder that has files/ and no dictionary.json has failed.
C24_Witness ==
    /\ paths = {"folder", "files"}
    /\ pkgpc = "failed"
    /\ pkgError = IOError("dictionary.json")
    /\ training_set_images = <<>>

(***************************************************************************)
(* One BoundingBox and a caller that converts it with to(format, img_dims) *)
(***************************************************************************)
\* Pixel coordinates and sizes of the boxes the caller builds.
PixelXs == {0, Unit, 10 * Unit, 33 * Unit}

PixelYs == {0, 7 * Unit}

\* Normalised values of the yolo boxes the caller builds: fifth decimals.
YoloXs == {0, Unit \div 8, Round5(Unit, 3), Unit \div 2}

YoloYs == {Unit \div 4, Unit}

\* BoundingBox(a, b, c, d, format) for each supported format.
OriginBoxes ==
    {BoundingBox(a, b, c, d, format) :
        a \in PixelXs, b \in PixelYs, c \in PixelXs, d \in PixelYs,
        format \in {"pascal", "coco"}}
    \cup {BoundingBox(a, b, c, d, "yolo") :
             a \in YoloXs, b \in YoloYs, c \in YoloXs, d \in YoloYs}

ImageDims == {Dimensions(3, 7), Dimensions(100, 200), Dimensions(640, 480)}

\* img_dims: None or a Dimensions
DimsArgs == {<<>>} \cup {<<dims>> : dims \in ImageDims}

InitBox ==
    /\ bbOrigin \in OriginBoxes
    /\ bbDims \in DimsArgs
    /\ bb = bbOrigin
    /\ bbCalls = <<>>
    /\ bbRaised = FALSE
    /\ PartIdle
    /\ LoadIdle
    /\ AcqIdle
    /\ RunIdle
    /\ DictIdle

\* bb = bb.to(format, img_dims); a ValueError ends the caller.
To(format) ==
    /\ Len(bbCalls) < MaxConversions
    /\ ~bbRaised
    /\ bbCalls' = Append(bbCalls, format)
    /\ IF to_raises(bb, format, bbDims)
       THEN /\ bbRaised' = TRUE
            /\ bb' = bb
       ELSE /\ bbRaised' = FALSE
            /\ bb' = to(bb, format, bbDims)
    /\ UNCHANGED <<bbOrigin, bbDims>>
    /\ UNCHANGED otherThanBox

NextBox == \E format \in SUPPORTED_OD_FORMATS : To(format)

SpecBox == InitBox /\ [][NextBox]_vars

\* A yolo box holds fifth decimals.
BoxTypeOK ==
    bb.current_format = "yolo" =>
        bb.a % 2 = 0 /\ bb.b % 2 = 0 /\ bb.c % 2 = 0 /\ bb.d % 2 = 0

(***************************************************************************)
(* C25: to(format, img_dims) raises ValueError exactly when img_dims is    *)
(* None, the box's format and the target format differ and one of the two  *)
(* is yolo; pascal -> coco and coco -> pascal return without img_dims.     *)
(***************************************************************************)
C25_DimsNeededForYolo ==
    [][bbCalls' # bbCalls =>
          LET format == bbCalls'[Len(bbCalls')]
          IN  bbRaised' <=> /\ bbDims = <<>>
                            /\ bb.current_format # format
                            /\ "yolo" \in {bb.current_format, format}]_vars

\* A pascal box was converted to coco without img_dims, and its conversion
\* to yolo then raised.
C25_Witness ==
    /\ bbOrigin.current_format = "pascal"
    /\ bbDims = <<>>
    /\ bbCalls = <<"coco", "yolo">>
    /\ bbRaised
    /\ bb.current_format = "coco"

(***************************************************************************)
(* C26: for every pascal box B and image dimensions D,                     *)
(* B.to(yolo, D).to(pascal, D) raises nothing, is tagged pascal, and each  *)
(* of its coordinates is within 10^-5 of the image's width (for x) or      *)
(* height (for y) of B's coordinate: the rounding of the normalised values *)
(* to five decimals.                                                       *)
(***************************************************************************)
C26_PascalRoundTrip ==
    bbOrigin.current_format = "pascal" /\ bbDims # <<>>
        /\ bbCalls = <<"yolo", "pascal">> =>
        LET Abs(x) == IF x < 0 THEN 0 - x ELSE x
            \* 10^-5 of a dimension given in pixels, in units
            Tolerance(pixels) == (pixels * Unit) \div 100000
        IN  /\ ~bbRaised
            /\ bb.current_format = "pascal"
            /\ Abs(bb.a - bbOrigin.a) <= Tolerance(bbDims[1].width)
            /\ Abs(bb.c - bbOrigin.c) <= Tolerance(bbDims[1].width)
            /\ Abs(bb.b - bbOrigin.b) <= Tolerance(bbDims[1].height)
            /\ Abs(bb.d - bbOrigin.d) <= Tolerance(bbDims[1].height)

\* A round trip in a 3 x 7 image that does not give back the exact box.
C26_Witness ==
    /\ bbOrigin.current_format = "pascal"
    /\ bbOrigin.a < bbOrigin.c
    /\ bbDims = <<Dimensions(3, 7)>>
    /\ bbCalls = <<"yolo", "pascal">>
    /\ ~bbRaised
    /\ bb.current_format = "pascal"
    /\ bb.a # bbOrigin.a

(***************************************************************************)
(* C27: for every format and every box already tagged with it,             *)
(* to(format, img_dims) raises nothing and returns the box with the four   *)
(* coordinates and the tag it had, for every img_dims and for None.        *)
(***************************************************************************)
C27_SameFormatIdentity ==
    [][bbCalls' # bbCalls /\ bbCalls'[Len(bbCalls')] = bb.current_format =>
          /\ ~bbRaised'
          /\ bb' = bb]_vars

\* A coco box with a width was converted to coco twice without img_dims.
C27_Witness ==
    /\ bbOrigin.current_format = "coco"
    /\ bbOrigin.c > 0
    /\ bbDims = <<>>
    /\ bbCalls = <<"coco", "coco">>
    /\ ~bbRaised
    /\ bb = bbOrigin

(***************************************************************************)
(* C28: for a fixed package and fixed fractions, when every image was      *)
(* acquired and generated, the split an image is written to does not       *)
(* depend on the order in which the load, acquisition and generation tasks *)
(* complete: it is the split the image has when every task completes in    *)
(* the order of submission, which is the order of the package.  The       *)
(* images have different URLs, so that no two share an output file.        *)
(***************************************************************************)
C28_SplitIndependentOfOrder ==
    runpc \in {"saving", "done"} /\ Len(yolo_images) = Len(json)
        /\ (\A i, j \in DOMAIN imgUrl : imgUrl[i] = imgUrl[j] => i = j) =>
        LET inOrder == partition([i \in DOMAIN json |-> i], splits)
        IN  \A k \in DOMAIN yolo_images : \A kind \in Range(SplitNames) :
                k \in SplitPositions(kind)
                    <=> yolo_images[k].image \in Range(inOrder[kind])

(***************************************************************************)
(* C29: the lock of _load_images is free again after every acquisition,    *)
(* also after one that raised: a task that is over does not hold it.       *)
(* Under fair scheduling every submitted acquisition eventually holds the  *)
(* lock and eventually is over, and _load_images eventually returns, with  *)
(* the lock free.                                                          *)
(***************************************************************************)
C29_LockReleasedAndTerminates ==
    /\ [](\A i \in ImageIds : apc[i] = "done" => lock # i)
    /\ [](AcqOver => lock = 0)
    /\ \A i \in 1..MaxImages :
          /\ (i \in ImageIds /\ apc[i] = "acquire") ~> (i \in ImageIds /\ lock = i)
          /\ (i \in ImageIds /\ lock = i) ~> (i \in ImageIds /\ apc[i] = "done")
    /\ <>(AcqOver /\ lock = 0)

\* _load_images has returned with the lock free after three acquisitions,
\* one of which raised.
C29_Witness ==
    /\ AcqOver
    /\ lock = 0
    /\ Cardinality(ImageIds) >= 3
    /\ \E i \in ImageIds : ares[i] = "error"
    /\ \E i \in ImageIds : ares[i] = "image"

(***************************************************************************)
(* C30: a download that fails leaves the cache as it was: the step at      *)
(* which an acquisition fails changes no cache file, a cache file that was *)
(* not there before the run exists only once a download of its URL has     *)
(* succeeded and was written, and every request that failed made a fetch   *)
(* of its own, so a request that comes after a failure fetches again.      *)
(***************************************************************************)
C30_FailedDownloadNotCached ==
    /\ [](\A u \in Urls :
             LET k == get_local_filename(u)
                 requests == {i \in ImageIds : imgUrl[i] = u}
                 failed == {i \in requests : ares[i] = "error"}
             IN  /\ disk[k] = "written" =>
                       writes[k] >= 1 /\ \E i \in requests : ares[i] = "image"
                 /\ disk[k] = "absent" => writes[k] = 0
                 /\ failed # {} => disk[k] # "cached"
                 /\ fetches[u] >= Cardinality(failed)
                 /\ AcqOver /\ disk[k] = "absent" =>
                       failed = requests /\ fetches[u] = Cardinality(requests))
    /\ [][\A i \in ImageIds :
             ares'[i] = "error" /\ ares[i] # "error" => disk' = disk]_vars

\* The first request for a url failed and left no file; a later request
\* for the url fetched again and wrote the file.
C30_Witness ==
    /\ AcqOver
    /\ \E u \in Urls :
          /\ \E i, j \in ImageIds :
                /\ i # j /\ imgUrl[i] = u /\ imgUrl[j] = u
                /\ ares[i] = "error" /\ ares[j] = "image"
          /\ fetches[u] = 2
          /\ writes[get_local_filename(u)] = 1
          /\ disk[get_local_filename(u)] = "written"

=============================================================================
